---- MODULE Spec2Model ----
(***************************************************************************)
(* A symbolic model of resolution_protocol's hybrid encryption layer:      *)
(* types/crypto.rs (EncryptionContext, GroupKey, SharedSecret) and          *)
(* types/encodings.rs (Msgpack).                                           *)
(*                                                                         *)
(* Byte strings are sequences of tokens.  A token is a record; every kind  *)
(* of token has its own field names.  The library primitives (ML-KEM-768,  *)
(* Falcon-512, AES-256-GCM, rmp_serde) are modelled by what they compute:  *)
(* a ciphertext names the key and randomness it was made with, a           *)
(* signature names the signing key and the signed bytes, and a changed     *)
(* bit is a flag on the value that carries it.  Values drawn from OsRng    *)
(* are numbered by the counter rng, so every draw is a new value.          *)
(*                                                                         *)
(* Spec is the encryption layer.  The value types are specifications of    *)
(* their own: SpecSecret (SharedSecret and its lengths), SpecEnvelope      *)
(* (Msgpack<T> over real MessagePack bytes of a two-field T) and           *)
(* SpecBase64 (Base64, with the encoding computed bit by bit).             *)
(***************************************************************************)
EXTENDS Integers, Sequences, FiniteSets, TLC

\* ---------------------------------------------------------------- bounds
NCtx == 3
NData == 2
NGroup == 2
MaxTargets == 2
MaxRand == 8
MaxVecLen == 34
MaxBytes == 3
MaxText == 3

\* ------------------------------------------------------ program constants
SecretLen == 32
NonceLen == 12

\* ctxs: the EncryptionContext of every party; rng: how many values have been
\* drawn from OsRng; sent: the latest encrypt call; last: the pending call.
\* secret: a SharedSecret value in a caller's hands, with the call that made it.
\* env: a Msgpack<T> envelope in a caller's hands, with the call made on it.
\* text: a Base64 value in a caller's hands, with the call that made it.
VARIABLES ctxs, rng, sent, last, secret, env, text

vars == <<ctxs, rng, sent, last, secret, env, text>>

Ctx == 1..NCtx

\* ------------------------------------------------------------------ keys
KemPk(i) == [kem_pk |-> i]
KemSk(i) == [kem_sk |-> i]
SigPk(i) == [sig_pk |-> i]
SigSk(i) == [sig_sk |-> i]

\* EncryptionContext::generate: one encapsulation and one signature keypair.
Generate(i) == [encryption |-> <<KemPk(i), KemSk(i)>>,
                signing    |-> <<SigPk(i), SigSk(i)>>]

public_keys(c) == <<c.encryption[1], c.signing[1]>>

secret_keys(c) == <<c.encryption[2], c.signing[2]>>

\* ------------------------------------------------------- token predicates
IsRec(x, f) == DOMAIN x = f

IsCt(x)    == IsRec(x, {"ct_pk", "ct_r", "ct_flip", "ct_wf"})
IsNonce(x) == IsRec(x, {"n_id", "n_flip", "n_len"})
IsBlock(x) == IsRec(x, {"b_key", "b_nonce", "b_pt", "b_flip"})
IsSig(x)   == IsRec(x, {"s_signer", "s_msg", "s_salt"})
IsUuid(x)  == IsRec(x, {"uuid"})
IsB64(x)   == IsRec(x, {"b64"})
IsArr(x, n) == IsRec(x, {"arr"}) /\ x.arr = n
IsNil(x)   == IsRec(x, {"nil"})

\* ------------------------------------------------------------ SharedSecret
\* A 32-byte secret: the output of encapsulation ("kem"), of a decapsulation
\* that rejected its ciphertext ("rej"), or of SharedSecret::generate ("gen").
Secret(kind, a, b) == [ss_kind |-> kind, ss_a |-> a, ss_b |-> b, ss_len |-> SecretLen]

SharedSecret_generate(s) == Secret("gen", s, 0)

\* GroupKey(Uuid, SharedSecret), with GroupKey::id and GroupKey::key.
GroupKey(g, s) == [gk_id |-> [uuid |-> g], gk_secret |-> SharedSecret_generate(s)]

GroupKey_id(k) == k.gk_id

GroupKey_key(k) == k.gk_secret

NoKey == GroupKey(0, 0)

\* A Vec<u8> of n bytes (content named by id), as handed to the constructors
\* of SharedSecret that take bytes.
Vec(n, id) == [ss_kind |-> "vec", ss_a |-> id, ss_b |-> 0, ss_len |-> n]

\* Error::BadLength(usize, usize) and its Display text
\* "Invalid bytestring length: expected {0}, got {1}".
BadLength(f0, f1) == [variant |-> "BadLength", f0 |-> f0, f1 |-> f1]

NoError == [variant |-> "", f0 |-> 0, f1 |-> 0]

Display(e) == [text |-> "Invalid bytestring length", expected |-> e.f0, got |-> e.f1]

\* From<[u8; 32]>: the array type fixes the length.
SharedSecret_from_array(id) == Secret("arr", id, 0)

\* TryFrom<Vec<u8>>
SharedSecret_try_from(value) ==
    IF value.ss_len # SecretLen
    THEN [ok |-> FALSE, val |-> value, err |-> BadLength(value.ss_len, SecretLen)]
    ELSE [ok |-> TRUE, val |-> value, err |-> NoError]

\* derive(Deserialize) with serde_as B64: the decoded bytes become the field,
\* whatever their number.
SharedSecret_deserialize(value) == [ok |-> TRUE, val |-> value, err |-> NoError]

\* DerefMut: the caller holds &mut Vec<u8> and may push or pop a byte.
SharedSecret_push(s) == [s EXCEPT !.ss_len = @ + 1]

SharedSecret_pop(s) == [s EXCEPT !.ss_len = IF @ > 0 THEN @ - 1 ELSE 0]

\* derive(Clone)
SharedSecret_clone(s) == s

\* ------------------------------------------------------------- primitives
\* kem.encapsulate: a ciphertext for pk and the secret it carries.
Encapsulate(pk, r) ==
    [ct |-> [ct_pk |-> pk.kem_pk, ct_r |-> r, ct_flip |-> 0, ct_wf |-> TRUE],
     ss |-> Secret("kem", pk.kem_pk, r)]

\* A kem::PublicKey whose bytes are not a key of the algorithm (PublicKey
\* derives Deserialize): encapsulate refuses it with an OQS error.
MalformedPk == [kem_pk |-> 0]

EncapsulateOk(pk) == pk # MalformedPk

\* kem.decapsulate (ML-KEM): a ciphertext of the wrong length is an error;
\* any other ciphertext yields a secret, the encapsulated one only for the
\* unchanged ciphertext under the matching secret key (implicit rejection).
DecapsulateOk(sk, ct) == ct.ct_wf

Decapsulate(sk, ct) ==
    IF ct.ct_pk = sk.kem_sk /\ ct.ct_flip = 0
    THEN Secret("kem", ct.ct_pk, ct.ct_r)
    ELSE Secret("rej", sk.kem_sk, ct.ct_r)

\* Aes256Gcm::new_from_slice: InvalidLength unless 32 bytes.
AesKeyOk(ss) == ss.ss_len = SecretLen

\* Aes256Gcm::generate_nonce(OsRng)
GenerateNonce(r) == [n_id |-> r, n_flip |-> 0, n_len |-> NonceLen]

\* aes.encrypt / aes.decrypt: the tag verifies only for the unchanged block
\* under the key and nonce it was made with.
AesEncrypt(key, nonce, pt) ==
    [b_key |-> key, b_nonce |-> nonce, b_pt |-> pt, b_flip |-> 0]

AesDecryptOk(key, nonce, block) ==
    block.b_key = key /\ block.b_nonce = nonce /\ block.b_flip = 0

\* sig.sign (Falcon: salted) / sig.verify
Sign(msg, sk, salt) == [s_signer |-> sk.sig_sk, s_msg |-> msg, s_salt |-> salt]

\* Mutant of sig.verify: the signer is checked, the signed bytes are not.
Verify_signer_only(msg, signature, pk) == signature.s_signer = pk.sig_pk

Verify(msg, signature, pk) ==
    signature.s_signer = pk.sig_pk /\ signature.s_msg = msg

\* ---------------------------------------------------------------- Msgpack
\* Msgpack<T>::encode for the two record shapes: a 3-element array.
MsgpackEncode3(a, b, c) == <<[arr |-> 3], a, b, c>>

\* Msgpack<(Ciphertext, Vec<u8>, Vec<u8>)>::decode
DecodeSingleOk(bytes) ==
    /\ Len(bytes) = 4
    /\ IsArr(bytes[1], 3)
    /\ IsCt(bytes[2])
    /\ IsNonce(bytes[3])
    /\ IsBlock(bytes[4])

\* Msgpack<(Uuid, Vec<u8>, Vec<u8>)>::decode
DecodeGroupOk(bytes) ==
    /\ Len(bytes) = 4
    /\ IsArr(bytes[1], 3)
    /\ IsUuid(bytes[2])
    /\ IsNonce(bytes[3])
    /\ IsBlock(bytes[4])

\* Msgpack::encode(&(record, signature)): the envelope serializes as the
\* pair (base64 text of its bytes, unit), the signature as its bytes.
MsgpackEncodeSigned(record, signature) ==
    <<[arr |-> 2], [arr |-> 2], [b64 |-> record], [nil |-> 0], signature>>

\* Msgpack::<GroupEncryption>::from_binary: the outer pair must decode; the
\* bytes inside the inner envelope are not looked at.
FromBinaryGroupOk(bytes) ==
    /\ Len(bytes) = 5
    /\ IsArr(bytes[1], 2)
    /\ IsArr(bytes[2], 2)
    /\ IsB64(bytes[3])
    /\ IsNil(bytes[4])
    /\ IsSig(bytes[5])

\* ------------------------------------------------- Msgpack<T> over real bytes
\* The envelope of a two-field T = (u8, u8) with fields up to 127: rmp_serde
\* writes the fixarray-2 marker 0x92 and one positive fixint per field.  A
\* value whose Serialize implementation reports an error has t_ser = FALSE.
FixArray2 == 146
MaxFixInt == 127

Value(a, b, ser) == [t_a |-> a, t_b |-> b, t_ser |-> ser]

\* rmp_serde::to_vec
to_vec(value) ==
    IF value.t_ser
    THEN [ok |-> TRUE, bytes |-> <<FixArray2, value.t_a, value.t_b>>, err |-> ""]
    ELSE [ok |-> FALSE, bytes |-> <<>>, err |-> "MsgpackEncoding"]

\* rmp_serde::from_slice::<T>: reads one value from the front of the slice.
from_slice(bytes) ==
    IF /\ Len(bytes) >= 3
       /\ bytes[1] = FixArray2
       /\ bytes[2] <= MaxFixInt
       /\ bytes[3] <= MaxFixInt
    THEN [ok |-> TRUE, val |-> Value(bytes[2], bytes[3], TRUE), err |-> ""]
    ELSE [ok |-> FALSE, val |-> Value(0, 0, TRUE), err |-> "MsgpackDecoding"]

\* Msgpack::encode
Msgpack_encode(data) ==
    LET e == to_vec(data)
    IN  [ok |-> e.ok, bytes |-> e.bytes, err |-> e.err]

\* Msgpack::decode
Msgpack_decode(bytes) == from_slice(bytes)

\* Msgpack::valid
Msgpack_valid(bytes) == Msgpack_decode(bytes).ok

\* Msgpack::from_binary
Msgpack_from_binary(data) ==
    LET d == from_slice(data)
    IN  IF ~d.ok THEN [ok |-> FALSE, bytes |-> <<>>, err |-> d.err]
        ELSE [ok |-> TRUE, bytes |-> data, err |-> ""]

\* derive(Deserialize) of Msgpack<T>: the bytes of the B64 field, as they are.
Msgpack_deserialize(data) == [ok |-> TRUE, bytes |-> data, err |-> ""]

None == [some |-> FALSE, val |-> Value(0, 0, TRUE)]

Some(v) == [some |-> TRUE, val |-> v]

\* Mutants of Msgpack::replace.
\* (1) the bytes are cleared before the new value is encoded.
Msgpack_replace_take(bytes, value) ==
    LET d == Msgpack_decode(bytes)
        old == IF d.ok THEN Some(d.val) ELSE None
        e == to_vec(value)
    IN  IF ~e.ok THEN [ok |-> FALSE, bytes |-> <<>>, ret |-> None, err |-> e.err]
        ELSE [ok |-> TRUE, bytes |-> e.bytes, ret |-> old, err |-> ""]

\* Msgpack::replace: the result and the bytes of the envelope afterwards.
Msgpack_replace(bytes, value) ==
    LET d == Msgpack_decode(bytes)
        old == IF d.ok THEN Some(d.val) ELSE None
        e == to_vec(value)
    IN  IF ~e.ok THEN [ok |-> FALSE, bytes |-> bytes, ret |-> None, err |-> e.err]
        ELSE [ok |-> TRUE, bytes |-> e.bytes, ret |-> old, err |-> ""]

\* ----------------------------------------------------------------- Base64
\* A string is a sequence of characters; a character of the URL-safe
\* alphabet is the number 0..63 it stands for, and NotInAlphabet is any
\* other character ('=', '+', '!').  Bytes are numbers 0..255.
NotInAlphabet == 64

\* BASE64_URL_SAFE_NO_PAD.encode: three bytes to four characters, a rest of
\* one byte to two and of two bytes to three, no padding.
RECURSIVE Base64Encode(_)
Base64Encode(b) ==
    IF Len(b) = 0 THEN <<>>
    ELSE IF Len(b) = 1 THEN <<b[1] \div 4, (b[1] % 4) * 16>>
    ELSE IF Len(b) = 2
    THEN <<b[1] \div 4, (b[1] % 4) * 16 + b[2] \div 16, (b[2] % 16) * 4>>
    ELSE <<b[1] \div 4, (b[1] % 4) * 16 + b[2] \div 16,
           (b[2] % 16) * 4 + b[3] \div 64, b[3] % 64>>
         \o Base64Encode(SubSeq(b, 4, Len(b)))

\* BASE64_URL_SAFE_NO_PAD.decode: an error for a character outside the
\* alphabet (padding included), for a length of 1 modulo 4, and for a last
\* character with bits set that belong to no byte.
Base64DecodeOk(s) ==
    /\ \A i \in DOMAIN s : s[i] < NotInAlphabet
    /\ Len(s) % 4 # 1
    /\ Len(s) % 4 = 2 => s[Len(s)] % 16 = 0
    /\ Len(s) % 4 = 3 => s[Len(s)] % 4 = 0

RECURSIVE Base64Decode(_)
Base64Decode(s) ==
    IF Len(s) < 2 THEN <<>>
    ELSE IF Len(s) = 2 THEN <<s[1] * 4 + s[2] \div 16>>
    ELSE IF Len(s) = 3
    THEN <<s[1] * 4 + s[2] \div 16, (s[2] % 16) * 16 + s[3] \div 4>>
    ELSE <<s[1] * 4 + s[2] \div 16, (s[2] % 16) * 16 + s[3] \div 4,
           (s[3] % 4) * 64 + s[4]>>
         \o Base64Decode(SubSeq(s, 5, Len(s)))

\* impl From<T: IntoIterator<Item = u8>> for Base64, and Base64::new
Base64_from(value) == Base64Encode(value)

Base64_new(value) == Base64_from(value)

\* impl FromStr for Base64 (Err = Infallible): the string as it is.
Base64_from_str(s) == s

\* derive(Clone)
Base64_clone(t) == t

\* Base64::try_value (TryInto<Vec<u8>>)
Base64_try_value(t) ==
    IF Base64DecodeOk(t) THEN [ok |-> TRUE, bytes |-> Base64Decode(t), err |-> ""]
    ELSE [ok |-> FALSE, bytes |-> <<>>, err |-> "Base64Decoding"]

\* Base64::value: expect() panics on the decoding error.
Base64_value(t) ==
    IF Base64_try_value(t).ok
    THEN [panic |-> FALSE, bytes |-> Base64_try_value(t).bytes]
    ELSE [panic |-> TRUE, bytes |-> <<>>]

\* ---------------------------------------------------------------- results
Ok(v, log) == [ok |-> TRUE, val |-> v, err |-> "", at |-> "", log |-> log]

Err(e, at, log) == [ok |-> FALSE, val |-> <<>>, err |-> e, at |-> at, log |-> log]

NoSig == [s_signer |-> 0, s_msg |-> <<>>, s_salt |-> 0]

SingleEncryption(record, signature) == [record |-> record, signature |-> signature]

NoEnc == SingleEncryption(<<>>, NoSig)

\* ----------------------------------------------------------- encrypt_direct
\* Draws rng+1 (nonce), rng+2 (encapsulation), rng+3 (signature salt).
DirectDraws == 3

\* The values an encrypt call drew from OsRng: a nonce, an encapsulation and
\* a signature salt draw one each.
Draws(log) ==
    Cardinality({i \in DOMAIN log : log[i].op \in {"nonce", "encapsulate", "sign"}})

\* Mutants of encrypt_direct.
\* (1) the record carries a second, newly generated nonce instead of the one
\*     the block was encrypted with.
encrypt_direct_second_nonce(c, target, data, r) ==
    LET nonce == GenerateNonce(r + 1)
        kem == Encapsulate(target, r + 2)
        encrypted_block == AesEncrypt(kem.ss, nonce, data)
        record == MsgpackEncode3(kem.ct, GenerateNonce(r + 3), encrypted_block)
        signature == Sign(record, secret_keys(c)[2], r + 3)
    IN  [ok |-> TRUE, err |-> "", val |-> SingleEncryption(record, signature),
         log |-> << [op |-> "nonce", n |-> nonce],
                    [op |-> "encapsulate", pk |-> target],
                    [op |-> "aes_encrypt", key |-> kem.ss, n |-> nonce],
                    [op |-> "sign", msg |-> record] >>]

\* (2) the secret is encapsulated against the caller's own public key.
encrypt_direct_to_self(c, target, data, r) ==
    LET nonce == GenerateNonce(r + 1)
        kem == Encapsulate(public_keys(c)[1], r + 2)
        encrypted_block == AesEncrypt(kem.ss, nonce, data)
        record == MsgpackEncode3(kem.ct, nonce, encrypted_block)
        signature == Sign(record, secret_keys(c)[2], r + 3)
    IN  [ok |-> TRUE, err |-> "", val |-> SingleEncryption(record, signature),
         log |-> << [op |-> "nonce", n |-> nonce],
                    [op |-> "encapsulate", pk |-> public_keys(c)[1]],
                    [op |-> "aes_encrypt", key |-> kem.ss, n |-> nonce],
                    [op |-> "sign", msg |-> record] >>]

\* (3) the record's first two fields are written in the other order.
encrypt_direct_swapped(c, target, data, r) ==
    LET nonce == GenerateNonce(r + 1)
        kem == Encapsulate(target, r + 2)
        encrypted_block == AesEncrypt(kem.ss, nonce, data)
        record == MsgpackEncode3(nonce, kem.ct, encrypted_block)
        signature == Sign(record, secret_keys(c)[2], r + 3)
    IN  [ok |-> TRUE, err |-> "", val |-> SingleEncryption(record, signature),
         log |-> << [op |-> "nonce", n |-> nonce],
                    [op |-> "encapsulate", pk |-> target],
                    [op |-> "aes_encrypt", key |-> kem.ss, n |-> nonce],
                    [op |-> "sign", msg |-> record] >>]

\* (4) the nonce is a value kept from the first draw, not a new one.
encrypt_direct_kept_nonce(c, target, data, r) ==
    LET nonce == GenerateNonce(1)
        kem == Encapsulate(target, r + 2)
        encrypted_block == AesEncrypt(kem.ss, nonce, data)
        record == MsgpackEncode3(kem.ct, nonce, encrypted_block)
        signature == Sign(record, secret_keys(c)[2], r + 3)
    IN  [ok |-> TRUE, err |-> "", val |-> SingleEncryption(record, signature),
         log |-> << [op |-> "nonce", n |-> nonce],
                    [op |-> "encapsulate", pk |-> target],
                    [op |-> "aes_encrypt", key |-> kem.ss, n |-> nonce],
                    [op |-> "sign", msg |-> record] >>]

encrypt_direct(c, target, data, r) ==
    LET nonce == GenerateNonce(r + 1)
        kem == Encapsulate(target, r + 2)
        encrypted_block == AesEncrypt(kem.ss, nonce, data)
        record == MsgpackEncode3(kem.ct, nonce, encrypted_block)
        signature == Sign(record, secret_keys(c)[2], r + 3)
        log == << [op |-> "nonce", n |-> nonce],
                  [op |-> "encapsulate", pk |-> target],
                  [op |-> "aes_encrypt", key |-> kem.ss, n |-> nonce],
                  [op |-> "sign", msg |-> record] >>
    IN  IF ~EncapsulateOk(target)
        THEN [ok |-> FALSE, err |-> "OQS", val |-> NoEnc, log |-> SubSeq(log, 1, 1)]
        ELSE IF ~AesKeyOk(kem.ss)
        THEN [ok |-> FALSE, err |-> "AESInvalidKeyLength", val |-> NoEnc,
              log |-> SubSeq(log, 1, 2)]
        ELSE [ok |-> TRUE, err |-> "", val |-> SingleEncryption(record, signature),
              log |-> log]

\* ----------------------------------------------------------- decrypt_direct
\* Lines 163-168: what decrypt_direct does with a record once the signature
\* has been dealt with; log is the operations run before.
DecryptRecord(c, record, log) ==
    IF ~DecodeSingleOk(record)
    THEN Err("MsgpackDecoding", "decode", log \o <<"decode">>)
    ELSE LET ciphertext == record[2]
             nonce == record[3]
             encrypted_block == record[4]
             l1 == log \o <<"decode", "decapsulate">>
         IN  IF ~DecapsulateOk(secret_keys(c)[1], ciphertext)
             THEN Err("OQS", "decapsulate", l1)
             ELSE LET shared_secret == Decapsulate(secret_keys(c)[1], ciphertext)
                      l2 == l1 \o <<"aes_new">>
                  IN  IF ~AesKeyOk(shared_secret)
                      THEN Err("AESInvalidKeyLength", "aes_new", l2)
                      ELSE IF nonce.n_len # NonceLen
                      THEN Err("panic", "nonce_from_slice", l2)
                      ELSE IF ~AesDecryptOk(shared_secret, nonce, encrypted_block)
                      THEN Err("AES", "aes_decrypt", l2 \o <<"aes_decrypt">>)
                      ELSE Ok(encrypted_block.b_pt, l2 \o <<"aes_decrypt">>)

\* Mutants of decrypt_direct.
\* (1) the signature is verified after the record has been decrypted.
decrypt_direct_verify_last(c, data, signer) ==
    LET body == DecryptRecord(c, data.record, <<>>)
    IN  IF ~body.ok THEN body
        ELSE IF ~Verify(data.record, data.signature, signer)
        THEN Err("OQS", "verify", body.log \o <<"verify">>)
        ELSE body

\* (2) the result of sig.verify is dropped (let _ = ... without the ?).
decrypt_direct_unchecked(c, data, signer) ==
    DecryptRecord(c, data.record, <<"verify">>)

decrypt_direct(c, data, signer) ==
    LET record == data.record
        signature == data.signature
    IN  IF ~Verify(record, signature, signer)
        THEN Err("OQS", "verify", <<"verify">>)
        ELSE DecryptRecord(c, record, <<"verify">>)

\* ------------------------------------------------------------ encrypt_group
\* The loop over targets: each pushes (target, encrypt_direct(target,
\* wrapped_data)); the first failing encrypt_direct ends the call with its
\* error and the results pushed so far are dropped.
\* Mutants of the loop.
\* (1) every hybrid result is encrypted to the first target.
RECURSIVE GroupLoop_first_target(_, _, _, _, _, _, _)
GroupLoop_first_target(c, targets, wrapped_data, r, i, results, log) ==
    IF i > Len(targets)
    THEN [ok |-> TRUE, err |-> "", out |-> results, log |-> log]
    ELSE LET e == encrypt_direct(c, targets[1], wrapped_data, r)
         IN  IF ~e.ok
             THEN [ok |-> FALSE, err |-> e.err, out |-> <<>>, log |-> log \o e.log]
             ELSE GroupLoop_first_target(c, targets, wrapped_data, r + DirectDraws,
                                         i + 1, Append(results, <<targets[i], e.val>>),
                                         log \o e.log)

\* (2) the inner record is signed again for every target.
RECURSIVE GroupLoop_resign(_, _, _, _, _, _, _)
GroupLoop_resign(c, targets, wrapped_data, r, i, results, log) ==
    IF i > Len(targets)
    THEN [ok |-> TRUE, err |-> "", out |-> results, log |-> log]
    ELSE LET record == wrapped_data[3].b64
             again == MsgpackEncodeSigned(record, Sign(record, secret_keys(c)[2], r + 1))
             e == encrypt_direct(c, targets[i], again, r)
         IN  IF ~e.ok
             THEN [ok |-> FALSE, err |-> e.err, out |-> <<>>, log |-> log \o e.log]
             ELSE GroupLoop_resign(c, targets, wrapped_data, r + DirectDraws, i + 1,
                                   Append(results, <<targets[i], e.val>>),
                                   log \o <<[op |-> "sign", msg |-> record]>> \o e.log)

\* (3) a target whose direct encryption fails is left out of the list.
RECURSIVE GroupLoop_skip_failed(_, _, _, _, _, _, _)
GroupLoop_skip_failed(c, targets, wrapped_data, r, i, results, log) ==
    IF i > Len(targets)
    THEN [ok |-> TRUE, err |-> "", out |-> results, log |-> log]
    ELSE LET e == encrypt_direct(c, targets[i], wrapped_data, r)
         IN  IF ~e.ok
             THEN GroupLoop_skip_failed(c, targets, wrapped_data, r + Draws(e.log),
                                        i + 1, results, log \o e.log)
             ELSE GroupLoop_skip_failed(c, targets, wrapped_data, r + DirectDraws, i + 1,
                                        Append(results, <<targets[i], e.val>>),
                                        log \o e.log)

RECURSIVE GroupLoop(_, _, _, _, _, _, _)
GroupLoop(c, targets, wrapped_data, r, i, results, log) ==
    IF i > Len(targets)
    THEN [ok |-> TRUE, err |-> "", out |-> results, log |-> log]
    ELSE LET e == encrypt_direct(c, targets[i], wrapped_data, r)
         IN  IF ~e.ok
             THEN [ok |-> FALSE, err |-> e.err, out |-> <<>>, log |-> log \o e.log]
             ELSE GroupLoop(c, targets, wrapped_data, r + DirectDraws, i + 1,
                            Append(results, <<targets[i], e.val>>), log \o e.log)

\* Draws rng+1 (nonce) and rng+2 (signature salt), then three per target.
GroupDraws(targets) == 2 + DirectDraws * Len(targets)

encrypt_group(c, key, targets, data, r) ==
    LET nonce == GenerateNonce(r + 1)
        encrypted_block == AesEncrypt(GroupKey_key(key), nonce, data)
        record == MsgpackEncode3(GroupKey_id(key), nonce, encrypted_block)
        signature == Sign(record, secret_keys(c)[2], r + 2)
        wrapped_data == MsgpackEncodeSigned(record, signature)
        log == << [op |-> "nonce", n |-> nonce],
                  [op |-> "aes_encrypt", key |-> GroupKey_key(key), n |-> nonce],
                  [op |-> "sign", msg |-> record] >>
    IN  IF ~AesKeyOk(GroupKey_key(key))
        THEN [ok |-> FALSE, err |-> "AESInvalidKeyLength", out |-> <<>>,
              log |-> SubSeq(log, 1, 1)]
        ELSE GroupLoop(c, targets, wrapped_data, r + 2, 1, <<>>, log)

\* ------------------------------------------------------------ decrypt_group
\* Mutant of decrypt_group: the key ID of the inner record is not compared
\* with the ID of the group key.
decrypt_group_no_id_check(c, key, data, signer) ==
    LET outer == decrypt_direct(c, data, signer)
    IN  IF ~outer.ok
        THEN outer
        ELSE IF ~FromBinaryGroupOk(outer.val)
        THEN Err("MsgpackDecoding", "from_binary", outer.log \o <<"from_binary">>)
        ELSE LET group_data == outer.val[3].b64
                 signature == outer.val[5]
                 l1 == outer.log \o <<"from_binary", "verify_inner">>
             IN  IF ~Verify(group_data, signature, signer)
                 THEN Err("OQS", "verify_inner", l1)
                 ELSE IF ~DecodeGroupOk(group_data)
                 THEN Err("MsgpackDecoding", "decode_inner", l1 \o <<"decode_inner">>)
                 ELSE LET nonce == group_data[3]
                          encrypted_block == group_data[4]
                          l2 == l1 \o <<"decode_inner", "group_aes_new",
                                        "group_aes_decrypt">>
                      IN  IF ~AesDecryptOk(GroupKey_key(key), nonce, encrypted_block)
                          THEN Err("AES", "group_aes_decrypt", l2)
                          ELSE Ok(encrypted_block.b_pt, l2)

\* Mutant of decrypt_group: the signature of the inner package is not
\* verified.
decrypt_group_outer_only(c, key, data, signer) ==
    LET outer == decrypt_direct(c, data, signer)
    IN  IF ~outer.ok
        THEN outer
        ELSE IF ~FromBinaryGroupOk(outer.val)
        THEN Err("MsgpackDecoding", "from_binary", outer.log \o <<"from_binary">>)
        ELSE LET group_data == outer.val[3].b64
                 l1 == outer.log \o <<"from_binary">>
             IN  IF ~DecodeGroupOk(group_data)
                 THEN Err("MsgpackDecoding", "decode_inner", l1 \o <<"decode_inner">>)
                 ELSE LET key_id == group_data[2]
                          nonce == group_data[3]
                          encrypted_block == group_data[4]
                          l2 == l1 \o <<"decode_inner", "key_id">>
                      IN  IF key_id # GroupKey_id(key)
                          THEN Err("UserError::InvalidKeyId", "key_id", l2)
                          ELSE IF ~AesDecryptOk(GroupKey_key(key), nonce, encrypted_block)
                          THEN Err("AES", "group_aes_decrypt",
                                   l2 \o <<"group_aes_new", "group_aes_decrypt">>)
                          ELSE Ok(encrypted_block.b_pt,
                                  l2 \o <<"group_aes_new", "group_aes_decrypt">>)

\* Mutant of decrypt_group: the key ID is compared before the signature of
\* the inner package is verified.
decrypt_group_id_first(c, key, data, signer) ==
    LET outer == decrypt_direct(c, data, signer)
    IN  IF ~outer.ok
        THEN outer
        ELSE IF ~FromBinaryGroupOk(outer.val)
        THEN Err("MsgpackDecoding", "from_binary", outer.log \o <<"from_binary">>)
        ELSE LET group_data == outer.val[3].b64
                 signature == outer.val[5]
                 l1 == outer.log \o <<"from_binary", "decode_inner">>
             IN  IF ~DecodeGroupOk(group_data)
                 THEN Err("MsgpackDecoding", "decode_inner", l1)
                 ELSE LET key_id == group_data[2]
                          nonce == group_data[3]
                          encrypted_block == group_data[4]
                          l2 == l1 \o <<"key_id">>
                          l3 == l2 \o <<"verify_inner">>
                      IN  IF key_id # GroupKey_id(key)
                          THEN Err("UserError::InvalidKeyId", "key_id", l2)
                          ELSE IF ~Verify(group_data, signature, signer)
                          THEN Err("OQS", "verify_inner", l3)
                          ELSE IF ~AesDecryptOk(GroupKey_key(key), nonce, encrypted_block)
                          THEN Err("AES", "group_aes_decrypt",
                                   l3 \o <<"group_aes_new", "group_aes_decrypt">>)
                          ELSE Ok(encrypted_block.b_pt,
                                  l3 \o <<"group_aes_new", "group_aes_decrypt">>)

decrypt_group(c, key, data, signer) ==
    LET outer == decrypt_direct(c, data, signer)
    IN  IF ~outer.ok
        THEN outer
        ELSE IF ~FromBinaryGroupOk(outer.val)
        THEN Err("MsgpackDecoding", "from_binary", outer.log \o <<"from_binary">>)
        ELSE LET group_data == outer.val[3].b64
                 signature == outer.val[5]
                 l1 == outer.log \o <<"from_binary", "verify_inner">>
             IN  IF ~Verify(group_data, signature, signer)
                 THEN Err("OQS", "verify_inner", l1)
                 ELSE IF ~DecodeGroupOk(group_data)
                 THEN Err("MsgpackDecoding", "decode_inner", l1 \o <<"decode_inner">>)
                 ELSE LET key_id == group_data[2]
                          nonce == group_data[3]
                          encrypted_block == group_data[4]
                          l2 == l1 \o <<"decode_inner", "key_id">>
                      IN  IF key_id # GroupKey_id(key)
                          THEN Err("UserError::InvalidKeyId", "key_id", l2)
                          ELSE IF ~AesKeyOk(GroupKey_key(key))
                          THEN Err("AESInvalidKeyLength", "group_aes_new",
                                   l2 \o <<"group_aes_new">>)
                          ELSE IF nonce.n_len # NonceLen
                          THEN Err("panic", "nonce_from_slice",
                                   l2 \o <<"group_aes_new">>)
                          ELSE IF ~AesDecryptOk(GroupKey_key(key), nonce, encrypted_block)
                          THEN Err("AES", "group_aes_decrypt",
                                   l2 \o <<"group_aes_new", "group_aes_decrypt">>)
                          ELSE Ok(encrypted_block.b_pt,
                                  l2 \o <<"group_aes_new", "group_aes_decrypt">>)
\* ------------------------------------------------------------------ inputs
\* Plaintexts: byte strings of length 1..NData.
PT(d) == [i \in 1..d |-> [byte |-> i]]

Data == {PT(d) : d \in 1..NData}

\* Group keys.  GroupKey::new draws an ID and a secret together; GroupKey
\* derives Deserialize, so a key pairing one group's ID with another's
\* secret can be built as well: here each ID with the next group's secret.
NewGroupKeys == {GroupKey(g, g) : g \in 1..NGroup}

\* A group key whose secret lost a byte (GroupKey derives Deserialize, and
\* SharedSecret's is unchecked): encrypt_group is given it as well, by a
\* caller that has encrypted before.
ShortGroupKey == [GroupKey(1, 1) EXCEPT !.gk_secret.ss_len = SecretLen - 1]

EncryptGroupKeys == IF sent.op = "none" THEN NewGroupKeys
                    ELSE NewGroupKeys \cup {ShortGroupKey}

GroupKeys == UNION {{GroupKey(g, g), GroupKey(g, (g % NGroup) + 1)} : g \in 1..NGroup}

\* Target lists: encapsulation public keys of contexts, repeats allowed.
TargetLists ==
    UNION {[1..n -> {public_keys(ctxs[i])[1] : i \in Ctx}] : n \in 0..MaxTargets}

\* Target lists that hold a malformed key: alone, after and before a key of
\* a context.
BadTargetLists ==
    {<<MalformedPk>>, <<public_keys(ctxs[1])[1], MalformedPk>>,
     <<MalformedPk, public_keys(ctxs[1])[1]>>}

\* The signed package (inner record envelope, inner signature) that context
\* c's encrypt_group builds for key and data: what a recipient recovers from
\* a hybrid result, and may hand on as the data of its own encrypt_direct.
Package(c, key, data) ==
    LET nonce == GenerateNonce(0)
        encrypted_block == AesEncrypt(GroupKey_key(key), nonce, data)
        record == MsgpackEncode3(GroupKey_id(key), nonce, encrypted_block)
        signature == Sign(record, secret_keys(c)[2], 0)
    IN  MsgpackEncodeSigned(record, signature)

\* The package context c relays: signed by the next context.
Relayed(c) == Package(ctxs[(c % NCtx) + 1], GroupKey(1, 1), PT(1))


\* What the transport may do to a (record, signature) before it is handed to
\* decrypt: re-encode the record with one field changed (a flipped bit, or a
\* changed length), and then replace the signature by one made by the holder
\* of the signing key that the decrypting caller will supply.
TamperKinds == {"none", "block", "nonce", "nonce_len", "ct", "ct_len"}

GroupTamperKinds == {"none", "block"}

Tamper(se, kind) ==
    LET ct == se.record[2]
        nonce == se.record[3]
        block == se.record[4]
    IN  CASE kind = "block" ->
               SingleEncryption(MsgpackEncode3(ct, nonce, [block EXCEPT !.b_flip = 1]),
                                se.signature)
          [] kind = "nonce" ->
               SingleEncryption(MsgpackEncode3(ct, [nonce EXCEPT !.n_flip = 1], block),
                                se.signature)
          [] kind = "nonce_len" ->
               SingleEncryption(MsgpackEncode3(ct, [nonce EXCEPT !.n_len = NonceLen - 1],
                                               block),
                                se.signature)
          [] kind = "ct" ->
               SingleEncryption(MsgpackEncode3([ct EXCEPT !.ct_flip = 1], nonce, block),
                                se.signature)
          [] kind = "ct_len" ->
               SingleEncryption(MsgpackEncode3([ct EXCEPT !.ct_wf = FALSE], nonce, block),
                                se.signature)
          [] OTHER -> se

Resign(se, resign, g) ==
    IF ~resign THEN se
    ELSE SingleEncryption(se.record, Sign(se.record, secret_keys(ctxs[g])[2], 0))

\* ------------------------------------------------------------------- state
\* sent: the latest encrypt call (its arguments, its result and the
\* primitive operations it ran); last: the call made on its output, or on a
\* context's keys, whose result the caller now holds (op "none": no call is
\* pending).  Every call starts when the result of the one before has been
\* taken (Return).
NoSent == [op |-> "none", sender |-> 0, targets |-> <<>>, key |-> NoKey,
           data |-> <<>>, ok |-> FALSE, err |-> "", out |-> <<>>, log |-> <<>>,
           base |-> 0, paired |-> <<>>]

NoLast == [op |-> "none", ctx |-> 0, idx |-> 0, tamper |-> "none", resign |-> FALSE,
           signer |-> 0, key |-> NoKey,
           res |-> Err("", "", <<>>), keys |-> <<>>]

NoSecret == [op |-> "none", held |-> FALSE, val |-> Vec(0, 0), arg |-> Vec(0, 0),
             ok |-> FALSE, err |-> NoError]

NoEnv == [op |-> "none", held |-> FALSE, bytes |-> <<>>, before |-> <<>>,
          arg |-> Value(0, 0, TRUE), ok |-> FALSE, err |-> "", ret |-> None]

NoText == [op |-> "none", held |-> FALSE, str |-> <<>>, bytes |-> <<>>]

Init ==
    /\ ctxs = [i \in Ctx |-> Generate(i)]
    /\ rng = 0
    /\ sent = NoSent
    /\ last = NoLast
    /\ secret = NoSecret
    /\ env = NoEnv
    /\ text = NoText

EncryptDirect(c, t, d) ==
    /\ rng + DirectDraws <= MaxRand
    /\ LET e == encrypt_direct(ctxs[c], t, d, rng)
       IN  sent' = [op |-> "direct", sender |-> c, targets |-> <<t>>, key |-> NoKey,
                    data |-> d, ok |-> e.ok, err |-> e.err,
                    out |-> IF e.ok THEN <<e.val>> ELSE <<>>, log |-> e.log,
                    base |-> rng, paired |-> <<>>]
    /\ rng' = rng + Draws(encrypt_direct(ctxs[c], t, d, rng).log)
    /\ last' = NoLast
    /\ UNCHANGED <<ctxs, secret, env, text>>

EncryptGroup(c, k, ts, d) ==
    /\ rng + GroupDraws(ts) <= MaxRand
    /\ LET e == encrypt_group(ctxs[c], k, ts, d, rng)
       IN  sent' = [op |-> "group", sender |-> c, targets |-> ts, key |-> k,
                    data |-> d, ok |-> e.ok, err |-> e.err,
                    out |-> [i \in 1..Len(e.out) |-> e.out[i][2]], log |-> e.log,
                    base |-> rng, paired |-> [i \in 1..Len(e.out) |-> e.out[i][1]]]
    /\ rng' = rng + Draws(encrypt_group(ctxs[c], k, ts, d, rng).log)
    /\ last' = NoLast
    /\ UNCHANGED <<ctxs, secret, env, text>>

DecryptDirect(c, i, t, j, g) ==
    /\ sent.ok
    /\ i \in 1..Len(sent.out)
    /\ LET data == Resign(Tamper(sent.out[i], t), j, g)
       IN  last' = [NoLast EXCEPT !.op = "decrypt_direct", !.ctx = c, !.idx = i,
                      !.tamper = t, !.resign = j, !.signer = g,
                      !.res = decrypt_direct(ctxs[c], data, public_keys(ctxs[g])[2])]
    /\ UNCHANGED <<ctxs, rng, sent, secret, env, text>>

DecryptGroup(c, k, i, t, j, g) ==
    /\ sent.ok
    /\ i \in 1..Len(sent.out)
    /\ LET data == Resign(Tamper(sent.out[i], t), j, g)
       IN  last' = [NoLast EXCEPT !.op = "decrypt_group", !.ctx = c, !.idx = i,
                      !.tamper = t, !.resign = j, !.signer = g, !.key = k,
                      !.res = decrypt_group(ctxs[c], k, data, public_keys(ctxs[g])[2])]
    /\ UNCHANGED <<ctxs, rng, sent, secret, env, text>>

PublicKeys(c) ==
    /\ last' = [NoLast EXCEPT !.op = "public_keys", !.ctx = c,
                              !.keys = public_keys(ctxs[c])]
    /\ UNCHANGED <<ctxs, rng, sent, secret, env, text>>

SecretKeys(c) ==
    /\ last' = [NoLast EXCEPT !.op = "secret_keys", !.ctx = c,
                              !.keys = secret_keys(ctxs[c])]
    /\ UNCHANGED <<ctxs, rng, sent, secret, env, text>>

Return ==
    /\ last.op # "none"
    /\ last' = NoLast
    /\ UNCHANGED <<ctxs, rng, sent, secret, env, text>>

Idle == last.op = "none"

Next ==
    \/ Idle /\ \E c \in Ctx, t \in Ctx :
          \E d \in Data \cup {Relayed(c)} : EncryptDirect(c, public_keys(ctxs[t])[1], d)
    \/ Idle /\ \E c \in Ctx, k \in EncryptGroupKeys,
                  ts \in TargetLists \cup BadTargetLists, d \in Data :
          EncryptGroup(c, k, ts, d)
    \/ Idle /\ \E c \in Ctx, i \in 1..MaxTargets, t \in TamperKinds, j \in BOOLEAN,
                  g \in Ctx :
          DecryptDirect(c, i, t, j, g)
    \/ Idle /\ \E c \in Ctx, k \in GroupKeys, i \in 1..MaxTargets,
                  t \in GroupTamperKinds, j \in BOOLEAN, g \in Ctx :
          DecryptGroup(c, k, i, t, j, g)
    \/ Idle /\ \E c \in Ctx : PublicKeys(c)
    \/ Idle /\ \E c \in Ctx : SecretKeys(c)
    \/ Return

Spec == Init /\ [][Next]_vars

\* ------------------------------------------------- SharedSecret as a value
\* The public operations on SharedSecret, applied one after another to the
\* value a caller holds.
VecLens == {0, SecretLen - 1, SecretLen, SecretLen + 1}

Vecs == {Vec(n, id) : n \in VecLens, id \in 1..NData}

Holds(op, arg, r) ==
    [op |-> op, held |-> r.ok, val |-> r.val, arg |-> arg, ok |-> r.ok, err |-> r.err]

Made(op, s) == Holds(op, Vec(0, 0), [ok |-> TRUE, val |-> s, err |-> NoError])

SecretGenerate(s) ==
    /\ secret' = Made("generate", SharedSecret_generate(s))
    /\ UNCHANGED <<ctxs, rng, sent, last, env, text>>

SecretFromArray(id) ==
    /\ secret' = Made("from_array", SharedSecret_from_array(id))
    /\ UNCHANGED <<ctxs, rng, sent, last, env, text>>

SecretTryFrom(v) ==
    /\ secret' = Holds("try_from", v, SharedSecret_try_from(v))
    /\ UNCHANGED <<ctxs, rng, sent, last, env, text>>

SecretDeserialize(v) ==
    /\ secret' = Holds("deserialize", v, SharedSecret_deserialize(v))
    /\ UNCHANGED <<ctxs, rng, sent, last, env, text>>

SecretPush ==
    /\ secret.held
    /\ secret.val.ss_len < MaxVecLen
    /\ secret' = Made("deref_mut", SharedSecret_push(secret.val))
    /\ UNCHANGED <<ctxs, rng, sent, last, env, text>>

SecretPop ==
    /\ secret.held
    /\ secret' = Made("deref_mut", SharedSecret_pop(secret.val))
    /\ UNCHANGED <<ctxs, rng, sent, last, env, text>>

SecretClone ==
    /\ secret.held
    /\ secret' = Made("clone", SharedSecret_clone(secret.val))
    /\ UNCHANGED <<ctxs, rng, sent, last, env, text>>

\* GroupKey::key of a key built around a generated secret.
SecretGroupKeyKey(k) ==
    /\ secret' = Made("key", GroupKey_key(k))
    /\ UNCHANGED <<ctxs, rng, sent, last, env, text>>

NextSecret ==
    \/ \E s \in 1..NGroup : SecretGenerate(s)
    \/ \E id \in 1..NData : SecretFromArray(id)
    \/ \E v \in Vecs : SecretTryFrom(v)
    \/ \E v \in Vecs : SecretDeserialize(v)
    \/ SecretPush
    \/ SecretPop
    \/ SecretClone
    \/ \E k \in NewGroupKeys : SecretGroupKeyKey(k)

SpecSecret == Init /\ [][NextSecret]_vars

\* --------------------------------------------------- Msgpack<T> as a value
\* The constructors of an envelope and Msgpack::replace, applied one after
\* another to the envelope a caller holds.
ByteVals == {0, 1, FixArray2, 255}

ByteStrings == UNION {[1..n -> ByteVals] : n \in 0..MaxBytes}

Values == {Value(a, b, ser) : a \in 0..1, b \in 0..1, ser \in BOOLEAN}

\* The envelope after a constructor: a failed call yields none.
Built(op, data, v, r) ==
    [op |-> op, held |-> r.ok, bytes |-> r.bytes, before |-> data, arg |-> v,
     ok |-> r.ok, err |-> r.err, ret |-> None]

EnvEncode(v) ==
    /\ env' = Built("encode", <<>>, v, Msgpack_encode(v))
    /\ UNCHANGED <<ctxs, rng, sent, last, secret, text>>

EnvFromBinary(data) ==
    /\ env' = Built("from_binary", data, Value(0, 0, TRUE), Msgpack_from_binary(data))
    /\ UNCHANGED <<ctxs, rng, sent, last, secret, text>>

EnvDeserialize(data) ==
    /\ env' = Built("deserialize", data, Value(0, 0, TRUE), Msgpack_deserialize(data))
    /\ UNCHANGED <<ctxs, rng, sent, last, secret, text>>

EnvReplace(v) ==
    /\ env.held
    /\ LET r == Msgpack_replace(env.bytes, v)
       IN  env' = [op |-> "replace", held |-> TRUE, bytes |-> r.bytes,
                   before |-> env.bytes, arg |-> v, ok |-> r.ok, err |-> r.err,
                   ret |-> r.ret]
    /\ UNCHANGED <<ctxs, rng, sent, last, secret, text>>

NextEnvelope ==
    \/ \E v \in Values : EnvEncode(v)
    \/ \E data \in ByteStrings : EnvFromBinary(data)
    \/ \E data \in ByteStrings : EnvDeserialize(data)
    \/ \E v \in Values : EnvReplace(v)

SpecEnvelope == Init /\ [][NextEnvelope]_vars

\* ------------------------------------------------------- Base64 as a value
\* The constructors of Base64, applied one after another; bytes is the
\* argument of the constructor that took bytes.
TextBytes == {0, 1, 255}

TextChars == {0, 16, 63, NotInAlphabet}

ByteArgs == UNION {[1..n -> TextBytes] : n \in 0..MaxText}

StrArgs == UNION {[1..n -> TextChars] : n \in 0..MaxText}

TextFrom(b) ==
    /\ text' = [op |-> "from", held |-> TRUE, str |-> Base64_from(b), bytes |-> b]
    /\ UNCHANGED <<ctxs, rng, sent, last, secret, env>>

TextNew(b) ==
    /\ text' = [op |-> "new", held |-> TRUE, str |-> Base64_new(b), bytes |-> b]
    /\ UNCHANGED <<ctxs, rng, sent, last, secret, env>>

TextFromStr(s) ==
    /\ text' = [op |-> "from_str", held |-> TRUE, str |-> Base64_from_str(s),
                bytes |-> <<>>]
    /\ UNCHANGED <<ctxs, rng, sent, last, secret, env>>

TextClone ==
    /\ text.held
    /\ text.op # "clone"
    /\ text' = [text EXCEPT !.op = "clone", !.str = Base64_clone(text.str)]
    /\ UNCHANGED <<ctxs, rng, sent, last, secret, env>>

NextBase64 ==
    \/ \E b \in ByteArgs : TextFrom(b)
    \/ \E b \in ByteArgs : TextNew(b)
    \/ \E s \in StrArgs : TextFromStr(s)
    \/ TextClone

SpecBase64 == Init /\ [][NextBase64]_vars
\* ================================================================== claims
\* The context that holds the secret key of an encapsulation public key.
Holder(pk) == pk.kem_pk

SignerKey(g) == public_keys(ctxs[g])[2]

\* The (record, signature) handed to the pending decrypt call.
LastInput == Resign(Tamper(sent.out[last.idx], last.tamper), last.resign, last.signer)

LastVerifies == Verify(LastInput.record, LastInput.signature, SignerKey(last.signer))

Range(f) == {f[i] : i \in DOMAIN f}

\* The pending call decrypts, unchanged, the output of the latest encrypt.
Untouched == last.tamper = "none" /\ ~last.resign

Addressed == Holder(sent.targets[last.idx]) = last.ctx

\* C1: direct round trip.  When context B decrypts, with A's signing public
\* key, what A's encrypt_direct produced for B's encapsulation public key
\* from plaintext P, decrypt_direct returns exactly P.
C1_DirectRoundTrip ==
    (/\ last.op = "decrypt_direct"
     /\ sent.op = "direct"
     /\ Untouched
     /\ Addressed
     /\ last.signer = sent.sender)
    => (last.res.ok /\ last.res.val = sent.data)

C1_Witness ==
    /\ last.op = "decrypt_direct"
    /\ sent.op = "direct"
    /\ Untouched
    /\ Addressed
    /\ last.signer = sent.sender
    /\ last.ctx # sent.sender
    /\ last.res.ok
    /\ Len(last.res.val) = NData

\* C2: group round trip.  Every entry (recipient key, hybrid result) returned
\* by encrypt_group(G, targets, P), decrypted by the holder of that recipient
\* key with decrypt_group(G, hybrid result, sender's signing public key),
\* yields exactly P.
C2_GroupRoundTrip ==
    (/\ last.op = "decrypt_group"
     /\ sent.op = "group"
     /\ Untouched
     /\ Addressed
     /\ last.key = sent.key
     /\ last.signer = sent.sender)
    => (last.res.ok /\ last.res.val = sent.data)

C2_Witness ==
    /\ last.op = "decrypt_group"
    /\ sent.op = "group"
    /\ Len(sent.targets) = MaxTargets
    /\ sent.targets[1] # sent.targets[2]
    /\ last.idx = 2
    /\ Untouched
    /\ Addressed
    /\ last.key = sent.key
    /\ last.signer = sent.sender
    /\ last.res.ok
    /\ last.res.val = sent.data

\* C3: signature gating of decrypt_direct.  It returns a plaintext only if the
\* supplied signature verifies over the record envelope's bytes under the
\* supplied signer key; when it does not verify, the call fails with the
\* signature error having run neither the decapsulation nor the AES
\* decryption.
C3_SignatureGate ==
    last.op = "decrypt_direct" =>
        /\ last.res.ok => LastVerifies
        /\ ~LastVerifies =>
              /\ ~last.res.ok
              /\ last.res.err = "OQS"
              /\ last.res.at = "verify"
              /\ "decapsulate" \notin Range(last.res.log)
              /\ "aes_decrypt" \notin Range(last.res.log)

C3_Witness ==
    /\ last.op = "decrypt_direct"
    /\ sent.op = "direct"
    /\ Addressed
    /\ last.tamper = "none"
    /\ ~last.resign
    /\ last.signer # sent.sender
    /\ ~LastVerifies
    /\ last.res.err = "OQS"
    /\ last.res.log = <<"verify">>
\* C4: authenticity of origin with a pinned signer.  Whenever decrypt_direct,
\* called with signer key S, returns a plaintext, the holder of S's signing
\* secret key is the party whose encrypt_direct call produced the record; a
\* party that takes another sender's (record, signature) and signs the same
\* record bytes with its own key is not accepted as the origin.
C4_PinnedSignerIsOrigin ==
    (/\ last.op = "decrypt_direct"
     /\ sent.op = "direct"
     /\ last.res.ok)
    => last.signer = sent.sender

C6_GroupIdEnforced ==
    (/\ last.op = "decrypt_group"
     /\ sent.op = "group"
     /\ Untouched
     /\ Addressed
     /\ last.signer = sent.sender
     /\ GroupKey_id(last.key) # GroupKey_id(sent.key))
    => /\ ~last.res.ok
       /\ last.res.val = <<>>
       /\ last.res.err = "UserError::InvalidKeyId"
       /\ "group_aes_decrypt" \notin Range(last.res.log)

C6_Witness ==
    /\ last.op = "decrypt_group"
    /\ sent.op = "group"
    /\ Untouched
    /\ Addressed
    /\ last.signer = sent.sender
    /\ GroupKey_id(last.key) # GroupKey_id(sent.key)
    /\ GroupKey_key(last.key) = GroupKey_key(sent.key)
    /\ last.res.err = "UserError::InvalidKeyId"

\* C7: a context whose encapsulation keypair is not the one an output of
\* encrypt_direct or encrypt_group is addressed to gets an error from
\* decrypt_direct and decrypt_group and no plaintext, whichever signer key
\* and group key it supplies, and also when it signs the record itself.
C7_NotAddressedNoPlaintext ==
    (/\ last.op \in {"decrypt_direct", "decrypt_group"}
     /\ last.tamper = "none"
     /\ ~Addressed)
    => (~last.res.ok /\ last.res.val = <<>>)

\* The error of C7's case when the signature verifies: decapsulation succeeds
\* (ML-KEM rejects implicitly) and the AES tag check fails.
C7_Witness ==
    /\ last.op = "decrypt_group"
    /\ sent.op = "group"
    /\ Untouched
    /\ ~Addressed
    /\ last.key = sent.key
    /\ last.signer = sent.sender
    /\ last.res.err = "AES"
    /\ last.res.at = "aes_decrypt"
    /\ "decapsulate" \in Range(last.res.log)

\* C8: no public operation of EncryptionContext returns the encapsulation
\* secret key or the signing secret key.
C8_NoSecretKeyReturned ==
    \A i \in DOMAIN last.keys :
        DOMAIN last.keys[i] \cap {"kem_sk", "sig_sk"} = {}

\* Helpers of C9: counting the primitive operations of an encrypt call, and
\* what the holder of target i recovers from hybrid result i.
Count(log, P(_)) == Cardinality({i \in DOMAIN log : P(log[i])})

IsGroupEncrypt(e) == e.op = "aes_encrypt" /\ e.key = GroupKey_key(sent.key)

IsInnerSign(e) == e.op = "sign" /\ DecodeGroupOk(e.msg)

Recovered(i) ==
    decrypt_direct(ctxs[Holder(sent.targets[i])], sent.out[i], SignerKey(sent.sender))

\* C9: single shared group package.  One encrypt_group call encrypts under
\* the group key exactly once and signs the inner record exactly once,
\* however many targets there are; the inner signed package that each
\* recipient recovers from its hybrid result is the same bytes for all of
\* them, and its signature verifies under the sender's signing key.  (The
\* result of encrypt_group is looked at when the call has returned, and a
\* recipient's own decrypt_direct call recovers the same package.)
C9_SinglePackage ==
    /\ (Idle /\ sent.op = "group" /\ sent.ok) =>
        /\ Len(sent.out) = Len(sent.targets)
        /\ Count(sent.log, IsGroupEncrypt) = 1
        /\ Count(sent.log, IsInnerSign) = 1
        /\ \A i \in DOMAIN sent.out :
              /\ Recovered(i).ok
              /\ FromBinaryGroupOk(Recovered(i).val)
              /\ Verify(Recovered(i).val[3].b64, Recovered(i).val[5],
                        SignerKey(sent.sender))
              /\ \A j \in DOMAIN sent.out : Recovered(i).val = Recovered(j).val
    /\ (/\ last.op = "decrypt_direct"
        /\ sent.op = "group"
        /\ Untouched
        /\ Addressed
        /\ last.signer = sent.sender) => last.res = Recovered(last.idx)

C9_Witness ==
    /\ sent.op = "group"
    /\ Len(sent.out) = MaxTargets
    /\ sent.targets[1] # sent.targets[2]
    /\ last.op = "decrypt_direct"
    /\ last.idx = 2
    /\ Untouched
    /\ Addressed
    /\ last.signer = sent.sender
    /\ last.res.ok
    /\ last.res.val = Recovered(1).val

IsPublicKey(x) == IsRec(x, {"kem_pk"}) \/ IsRec(x, {"sig_pk"})

C11_SecretLength ==
    /\ secret.held => secret.val.ss_len = SecretLen
    /\ (secret.op \in {"try_from", "deserialize"} /\ secret.arg.ss_len # SecretLen)
          => (~secret.ok /\ secret.err.variant = "BadLength")

\* C19: SharedSecret::try_from(Vec<u8>) succeeds exactly for 32 bytes and
\* keeps them; for n # 32 bytes it fails with BadLength whose text reports
\* "expected 32, got n".
C19_TryFromReports ==
    secret.op = "try_from" =>
        /\ secret.ok <=> secret.arg.ss_len = SecretLen
        /\ secret.ok => secret.val = secret.arg
        /\ ~secret.ok =>
              /\ secret.err.variant = "BadLength"
              /\ Display(secret.err).expected = SecretLen
              /\ Display(secret.err).got = secret.arg.ss_len

\* C12: every Msgpack<T> envelope constructed successfully (by encode,
\* from_binary, replace, or deserialization of an enclosing value) is valid,
\* i.e. decodes to a T; from_binary on bytes that do not decode fails with a
\* decoding error and yields no envelope, and on success keeps the input bytes.
C12_EnvelopeValid ==
    /\ env.held => Msgpack_valid(env.bytes)
    /\ env.op = "from_binary" =>
          /\ env.ok <=> from_slice(env.before).ok
          /\ ~env.ok => (env.err = "MsgpackDecoding" /\ ~env.held)
          /\ env.ok => env.bytes = env.before

\* C18: Msgpack::replace, on success, leaves the encoding of the new value
\* in the envelope (decode returns the new value, valid holds) and returns
\* Some(previous decoded value) if the previous bytes decoded and None
\* otherwise; if encoding the new value fails it returns the error and the
\* bytes are unchanged.
C18_Replace ==
    env.op = "replace" =>
        /\ env.ok <=> to_vec(env.arg).ok
        /\ env.ok =>
              /\ env.bytes = to_vec(env.arg).bytes
              /\ Msgpack_decode(env.bytes).ok
              /\ Msgpack_decode(env.bytes).val = env.arg
              /\ Msgpack_valid(env.bytes)
              /\ Msgpack_decode(env.before).ok
                    => env.ret = Some(Msgpack_decode(env.before).val)
              /\ ~Msgpack_decode(env.before).ok => env.ret = None
        /\ ~env.ok =>
              /\ env.err = "MsgpackEncoding"
              /\ env.bytes = env.before

\* A replace that succeeded on an envelope holding another value.
C18_Witness ==
    /\ env.op = "replace"
    /\ env.ok
    /\ env.ret.some
    /\ env.ret.val # env.arg
    /\ env.bytes # env.before

\* C13: signature binding.  When the bytes of a signed record envelope are
\* changed (Msgpack::replace with another value) and the old signature is
\* kept, the old signature verifies over the new bytes under no key, and
\* decrypt_direct and decrypt_group given the changed envelope with the old
\* signature fail with the signature error.
C13_SignatureBinding ==
    (/\ last.op \in {"decrypt_direct", "decrypt_group"}
     /\ last.tamper # "none"
     /\ ~last.resign)
    => /\ LastInput.record # sent.out[last.idx].record
       /\ LastInput.signature = sent.out[last.idx].signature
       /\ \A g \in Ctx : ~Verify(LastInput.record, LastInput.signature, SignerKey(g))
       /\ ~last.res.ok
       /\ last.res.err = "OQS"
       /\ last.res.at = "verify"

C13_Witness ==
    /\ last.op = "decrypt_group"
    /\ sent.op = "group"
    /\ last.tamper = "block"
    /\ ~last.resign
    /\ Addressed
    /\ last.key = sent.key
    /\ last.signer = sent.sender
    /\ last.res.err = "OQS"
    /\ last.res.log = <<"verify">>

\* What the outer hybrid decryption of the pending decrypt_group call yields.
Outer == decrypt_direct(ctxs[last.ctx], LastInput, SignerKey(last.signer))

\* The signer of the package inside the latest encrypt call's output: the
\* sender of a group call, the signer of the package given as data to a
\* direct call (0: the data is no package).
InnerSigner ==
    IF sent.op = "group" THEN sent.sender
    ELSE IF FromBinaryGroupOk(sent.data) THEN sent.data[5].s_signer
    ELSE 0

\* C15: decrypt_group checks both signature layers against the one supplied
\* signer key.  It returns a plaintext only if the outer hybrid signature and
\* the inner package signature both verify under that key; a hybrid result
\* whose outer signature is by one party and whose inner signature is by
\* another is rejected whichever signer key is supplied.
C15_BothLayers ==
    last.op = "decrypt_group" =>
        /\ last.res.ok =>
              /\ LastVerifies
              /\ Outer.ok
              /\ FromBinaryGroupOk(Outer.val)
              /\ Verify(Outer.val[3].b64, Outer.val[5], SignerKey(last.signer))
        /\ (InnerSigner # 0 /\ LastInput.signature.s_signer # InnerSigner)
              => ~last.res.ok

\* The relayed package, addressed to the caller and signed on the outside by
\* the supplied signer: refused at the inner signature.
C15_Witness ==
    /\ last.op = "decrypt_group"
    /\ sent.op = "direct"
    /\ sent.data = Relayed(sent.sender)
    /\ Untouched
    /\ Addressed
    /\ last.signer = sent.sender
    /\ InnerSigner # sent.sender
    /\ last.key = GroupKey(1, 1)
    /\ last.res.err = "OQS"
    /\ last.res.at = "verify_inner"

\* The checks of decrypt_group in the order the code runs them.
GroupChecks == <<"verify", "decode", "decapsulate", "aes_new", "aes_decrypt",
                 "from_binary", "verify_inner", "decode_inner", "key_id",
                 "group_aes_new", "group_aes_decrypt">>

\* C16: order of checks in decrypt_group: the outer hybrid decryption (outer
\* signature, decapsulation, outer AES), the validation of the package
\* bytes, the inner signature, the group-ID comparison, the AES decryption
\* under the group key.  The call stops at the first check that fails and
\* reports it: a package with an invalid inner signature and a wrong group
\* ID fails with the signature error, and the group key is applied only to a
\* ciphertext whose signature and group ID were accepted.
C16_OrderOfChecks ==
    last.op = "decrypt_group" =>
        /\ Len(last.res.log) \in 1..Len(GroupChecks)
        /\ last.res.log = SubSeq(GroupChecks, 1, Len(last.res.log))
        /\ ~last.res.ok => last.res.at = last.res.log[Len(last.res.log)]
        /\ last.res.ok => last.res.log = GroupChecks
        /\ last.res.at \in {"verify", "verify_inner"} => last.res.err = "OQS"
        /\ last.res.at = "key_id" => last.res.err = "UserError::InvalidKeyId"
        /\ (/\ Outer.ok
            /\ FromBinaryGroupOk(Outer.val)
            /\ ~Verify(Outer.val[3].b64, Outer.val[5], SignerKey(last.signer))
            /\ DecodeGroupOk(Outer.val[3].b64)
            /\ Outer.val[3].b64[2] # GroupKey_id(last.key))
              => (last.res.err = "OQS" /\ last.res.at = "verify_inner")
        /\ ("group_aes_new" \in Range(last.res.log)
              \/ "group_aes_decrypt" \in Range(last.res.log)) =>
              /\ Verify(Outer.val[3].b64, Outer.val[5], SignerKey(last.signer))
              /\ Outer.val[3].b64[2] = GroupKey_id(last.key)

C16_Witness ==
    /\ last.op = "decrypt_group"
    /\ sent.op = "direct"
    /\ sent.data = Relayed(sent.sender)
    /\ Untouched
    /\ Addressed
    /\ last.signer = sent.sender
    /\ GroupKey_id(last.key) # sent.data[3].b64[2]
    /\ last.res.err = "OQS"
    /\ last.res.log = SubSeq(GroupChecks, 1, 7)

IsNonceDraw(e) == e.op = "nonce"

IsAesEncrypt(e) == e.op = "aes_encrypt"

\* C20: nonce freshness.  Every AES-GCM encryption of encrypt_direct and
\* encrypt_group uses a nonce drawn from the RNG inside that same call, just
\* before it; an encrypt_group call with N targets draws N + 1 nonces; no
\* two encryptions share a nonce, no nonce is one drawn by an earlier call,
\* and the context holds no nonce: it is the keypairs it was generated with.
C20_NonceFresh ==
    (Idle /\ sent.op # "none") =>
        /\ \A i \in DOMAIN sent.log :
              IsAesEncrypt(sent.log[i]) =>
                  /\ sent.log[i].n.n_id \in (sent.base + 1)..rng
                  /\ \E j \in 1..(i - 1) :
                        /\ IsNonceDraw(sent.log[j])
                        /\ sent.log[j].n = sent.log[i].n
                  /\ \A j \in DOMAIN sent.log :
                        (IsAesEncrypt(sent.log[j]) /\ j # i)
                            => sent.log[j].n # sent.log[i].n
        /\ (sent.ok /\ sent.op = "group") =>
              /\ Count(sent.log, IsNonceDraw) = Len(sent.targets) + 1
              /\ Count(sent.log, IsAesEncrypt) = Len(sent.targets) + 1
        /\ (sent.ok /\ sent.op = "direct") =>
              /\ Count(sent.log, IsNonceDraw) = 1
              /\ Count(sent.log, IsAesEncrypt) = 1
        /\ sent.ok =>
              \A i \in DOMAIN sent.out :
                  \E j \in DOMAIN sent.log :
                      /\ IsAesEncrypt(sent.log[j])
                      /\ sent.log[j].n = sent.out[i].record[3]
                      /\ sent.out[i].record[4].b_nonce = sent.log[j].n
        /\ \A c \in Ctx : ctxs[c] = Generate(c)

\* A group call for one target, made after an earlier call: two nonces,
\* both drawn after the earlier call's.
C20_Witness ==
    /\ Idle
    /\ sent.op = "group"
    /\ sent.ok
    /\ Len(sent.targets) = 1
    /\ sent.base > 0
    /\ Cardinality({sent.log[i].n : i \in {j \in DOMAIN sent.log :
                                              IsAesEncrypt(sent.log[j])}}) = 2

\* C14: every Base64 value constructed through the public API (From<bytes>,
\* new, from_str, clone) holds a valid URL-safe unpadded base64 string:
\* try_value succeeds and value does not panic on it, and for a value built
\* from bytes b, value() = b.
C14_Base64Valid ==
    text.held =>
        /\ Base64_try_value(text.str).ok
        /\ ~Base64_value(text.str).panic
        /\ text.op \in {"from", "new"} => Base64_value(text.str).bytes = text.bytes

\* The part of C14 that holds: a value built from bytes, and its clone,
\* decode to those bytes.
C14_FromBytesRoundTrip ==
    (text.held /\ text.op \in {"from", "new"}) =>
        /\ Base64_try_value(text.str).ok
        /\ Base64_value(text.str) = [panic |-> FALSE, bytes |-> text.bytes]
====
